---- MODULE Spec2Model ----
(***************************************************************************)
(* Model of go-mesos-executor's hook package: the hook Manager             *)
(* (registration, priority sort, per-phase execution) and the ACL hook     *)
(* (chain resolution, rule derivation, injection and retraction through    *)
(* the iptables driver).                                                   *)
(*                                                                         *)
(* The container package's containerd backend (create, run, stop, exec)    *)
(* is modelled as well.                                                    *)
(*                                                                         *)
(* Three specifications share the variables:                               *)
(*   Spec           the Manager: NewManager, RegisterHooks, Run*Hooks      *)
(*   SpecACL        the ACL hook: ACLHook.RunPostRun and RunPreStop        *)
(*   SpecContainerd ContainerdContainerizer: ContainerCreate,              *)
(*                  ContainerRun, ContainerStop, ContainerExec             *)
(***************************************************************************)
EXTENDS Integers, Sequences, FiniteSets, TLC

VARIABLES
    EnabledHooks,   \* Manager.EnabledHooks: the set of enabled hook names
    Hooks,          \* Manager.Hooks: the registered hooks, in run order
    when,           \* phase of the last Run*Hooks call ("none" before any)
    invoked,        \* ids of the hooks whose callback the last call invoked, in order
    ret,            \* what the last call returned: NilErr or the failing hook's id
    fails,          \* ids of the hooks whose callback fails when invoked in the last call
    offered,        \* how many hooks with an enabled name RegisterHooks was handed so far
    skipped,        \* the last RegisterHooks call was handed enabled and disabled hooks
    taskInfo,       \* the mesos.TaskInfo handed to the ACL callbacks
    viper,          \* the acl.* configuration keys
    filterChains,   \* the chains of the packet filter's "filter" table
    callback,       \* the ACL callback invoked last ("none" before any)
    previous,       \* after a pre-stop: the ACL callback invoked before it
    driverCalls,    \* the driver calls the last ACL callback made, in order
    aclErr,         \* the error the last ACL callback returned (NoError if none)
    reads,          \* the configuration keys the last ACL callback read, in order
    tasks,          \* containerd: per container id, absent, without task, or its task's state
    stopPc,         \* ContainerStop: "none" before any call, "waiting" at <-exitStatusC, "done"
    stopId,         \* the id the last ContainerStop call was given
    stopSaw,        \* what tasks held for that id when the call was made
    stopCalls,      \* the containerd calls the last ContainerStop call made, in order
    stopRet,        \* what it returned: "nil", "err", or "none" while it has not returned
    execChan,       \* the channel the last ContainerExec call returned ("none" before any)
    execCaller      \* the caller of ContainerExec: "idle", or "blocked" receiving on the channel

mgrVars == <<EnabledHooks, Hooks, when, invoked, ret, fails, offered, skipped>>
aclVars == <<taskInfo, viper, filterChains, callback, previous, driverCalls, aclErr,
             reads>>
vars == <<EnabledHooks, Hooks, when, invoked, ret, fails, offered, skipped,
          taskInfo, viper, filterChains, callback, previous, driverCalls, aclErr,
          reads,
          tasks, stopPc, stopId, stopSaw, stopCalls, stopRet, execChan, execCaller>>
ctrVars == <<tasks, stopPc, stopId, stopSaw, stopCalls, stopRet, execChan, execCaller>>

\* containerd without any container, no ContainerStop or ContainerExec call
\* made yet
ContainerIds == {"c1", "c2"}

NoContainers ==
    /\ tasks = [id \in ContainerIds |-> "absent"]
    /\ stopPc = "none"
    /\ stopId = "none"
    /\ stopSaw = "none"
    /\ stopCalls = <<>>
    /\ stopRet = "none"
    /\ execChan = "none"
    /\ execCaller = "idle"

(***************************************************************************)
(* Bounds                                                                  *)
(***************************************************************************)
MaxHooks == 3       \* registered hooks
MaxBatch == 2       \* hooks passed to one RegisterHooks call

(***************************************************************************)
(* Phases (type when)                                                      *)
(***************************************************************************)
preCreate == "pre-create"
preRun == "pre-run"
postRun == "post-run"
preStop == "pre-stop"
postStop == "post-stop"

Phases == {preCreate, preRun, postRun, preStop, postStop}

(***************************************************************************)
(* Hooks.  A registered hook is a *Hook: id stands for the pointer (each   *)
(* hook handed to RegisterHooks is a distinct object, numbered in          *)
(* registration order); Callbacks is the set of phases whose callback is   *)
(* not nil.                                                                *)
(***************************************************************************)
HookNames == {"acl", "netns"}
Priorities == {0, 1}
CallbackSets == {{postRun, preStop}, {preCreate, preRun, postStop}}

\* the name lists NewManager is given
EnabledLists == {<<>>, <<"acl">>, <<"acl", "acl">>}

\* the hooks handed to RegisterHooks: any hook named "acl", one named "netns"
HookValues ==
    [Name : {"acl"}, Priority : Priorities, Callbacks : CallbackSets]
    \cup {[Name |-> "netns", Priority |-> 1, Callbacks |-> Phases]}

NilErr == 0
UnknownPhaseErr == -1

SeqsUpTo(S, n) == UNION {[1..k -> S] : k \in 0..n}

(***************************************************************************)
(* sorter and sort.Sort.  For fewer than 7 elements every version of       *)
(* sort.Sort is a plain insertion sort driven by Less and Swap.            *)
(***************************************************************************)
byPriorityAscending(h1, h2) == h1.Priority < h2.Priority

\* the by function of sortByPriority
byPriority(h1, h2) == ~(h1.Priority < h2.Priority)

Less(hooks, i, j) == byPriority(hooks[i], hooks[j])

Swap(hooks, i, j) == [hooks EXCEPT ![i] = hooks[j], ![j] = hooks[i]]

RECURSIVE insertionSink(_, _)
insertionSink(hooks, j) ==
    IF j > 1 /\ Less(hooks, j, j - 1)
    THEN insertionSink(Swap(hooks, j, j - 1), j - 1)
    ELSE hooks

RECURSIVE insertionSort(_, _)
insertionSort(hooks, i) ==
    IF i > Len(hooks) THEN hooks
    ELSE insertionSort(insertionSink(hooks, i), i + 1)

sortByPriority(hooks) == insertionSort(hooks, 2)

(***************************************************************************)
(* RegisterHooks                                                           *)
(***************************************************************************)
IsEnabledAlways(enabled, name) == TRUE

IsEnabled(enabled, name) == name \in enabled

RECURSIVE appendEnabled(_, _, _, _)
appendEnabled(enabled, registered, hooks, i) ==
    IF i > Len(hooks) THEN registered
    ELSE IF ~IsEnabled(enabled, hooks[i].Name)
         THEN appendEnabled(enabled, registered, hooks, i + 1)
         ELSE appendEnabled(enabled,
                  Append(registered,
                         [id |-> Len(registered) + 1,
                          Name |-> hooks[i].Name,
                          Priority |-> hooks[i].Priority,
                          Callbacks |-> hooks[i].Callbacks]),
                  hooks, i + 1)

Candidates ==
    IF Len(Hooks) < MaxHooks THEN HookValues
    ELSE {h \in HookValues : ~IsEnabled(EnabledHooks, h.Name)}

\* The record of the last Run*Hooks call (when, invoked, ret, fails) describes
\* a run over the current list: a registration discards it.
RegisterHooks ==
    \E hooks \in SeqsUpTo(Candidates, MaxBatch) :
        LET appended == appendEnabled(EnabledHooks, Hooks, hooks, 1)
            named == {i \in 1..Len(hooks) : hooks[i].Name \in EnabledHooks}
        IN
        /\ Len(appended) <= MaxHooks
        /\ Hooks' = sortByPriority(appended)
        /\ offered' = offered + Cardinality(named)
        /\ skipped' = (named # {} /\ Cardinality(named) < Len(hooks))
        /\ when' = "none"
        /\ invoked' = <<>>
        /\ ret' = NilErr
        /\ fails' = {}
        /\ UNCHANGED EnabledHooks
        /\ UNCHANGED aclVars
        /\ UNCHANGED ctrVars

(***************************************************************************)
(* runHooks and the five entry points                                      *)
(***************************************************************************)
RECURSIVE runHooksFrom(_, _, _, _, _, _)
runHooksFrom(hooks, w, exitOnError, failing, i, called) ==
    IF i > Len(hooks) THEN [invoked |-> called, ret |-> NilErr]
    ELSE IF w \notin Phases THEN [invoked |-> called, ret |-> UnknownPhaseErr]
    ELSE IF w \notin hooks[i].Callbacks
         THEN runHooksFrom(hooks, w, exitOnError, failing, i + 1, called)
    ELSE IF hooks[i].id \in failing /\ exitOnError
         THEN [invoked |-> Append(called, hooks[i].id), ret |-> hooks[i].id]
    ELSE runHooksFrom(hooks, w, exitOnError, failing, i + 1,
                      Append(called, hooks[i].id))

RECURSIVE runHooksNeverExit(_, _, _, _, _, _)
runHooksNeverExit(hooks, w, exitOnError, failing, i, called) ==
    IF i > Len(hooks) THEN [invoked |-> called, ret |-> NilErr]
    ELSE IF w \notin Phases THEN [invoked |-> called, ret |-> UnknownPhaseErr]
    ELSE IF w \notin hooks[i].Callbacks
         THEN runHooksNeverExit(hooks, w, exitOnError, failing, i + 1, called)
    ELSE runHooksNeverExit(hooks, w, exitOnError, failing, i + 1,
                           Append(called, hooks[i].id))

RECURSIVE runHooksNilStops(_, _, _, _, _, _)
runHooksNilStops(hooks, w, exitOnError, failing, i, called) ==
    IF i > Len(hooks) THEN [invoked |-> called, ret |-> NilErr]
    ELSE IF w \notin Phases THEN [invoked |-> called, ret |-> UnknownPhaseErr]
    ELSE IF w \notin hooks[i].Callbacks
         THEN [invoked |-> called, ret |-> NilErr]
    ELSE IF hooks[i].id \in failing /\ exitOnError
         THEN [invoked |-> Append(called, hooks[i].id), ret |-> hooks[i].id]
    ELSE runHooksNilStops(hooks, w, exitOnError, failing, i + 1,
                          Append(called, hooks[i].id))

runHooksLoop(hooks, w, exitOnError, failing, i, called) ==
    runHooksFrom(hooks, w, exitOnError, failing, i, called)

runHooks(hooks, w, exitOnError, failing) ==
    runHooksLoop(hooks, w, exitOnError, failing, 1, <<>>)

HookIds(hooks) == {hooks[i].id : i \in 1..Len(hooks)}

\* the hooks whose callback for phase w is not nil: only these can fail
CallbackIds(hooks, w) ==
    {hooks[i].id : i \in {j \in 1..Len(hooks) : w \in hooks[j].Callbacks}}

RunDroppingFailed(w, exitOnError) ==
    \E failing \in SUBSET CallbackIds(Hooks, w) :
        LET r == runHooks(Hooks, w, exitOnError, failing) IN
        /\ when' = w
        /\ fails' = failing
        /\ invoked' = r.invoked
        /\ ret' = r.ret
        /\ Hooks' = SelectSeq(Hooks, LAMBDA h : h.id \notin failing)
        /\ UNCHANGED <<EnabledHooks, offered, skipped>>
        /\ UNCHANGED aclVars
        /\ UNCHANGED ctrVars

\* One call of runHooks on the Manager: the callbacks that fail are an input.
Run(w, exitOnError) ==
    \E failing \in SUBSET CallbackIds(Hooks, w) :
        LET r == runHooks(Hooks, w, exitOnError, failing) IN
        /\ when' = w
        /\ fails' = failing
        /\ invoked' = r.invoked
        /\ ret' = r.ret
        /\ UNCHANGED <<EnabledHooks, Hooks, offered, skipped>>
        /\ UNCHANGED aclVars
        /\ UNCHANGED ctrVars

RunPreCreateHooks == Run(preCreate, TRUE)

RunPreRunHooks == Run(preRun, TRUE)

RunPostRunHooks == Run(postRun, TRUE)

RunPreStopHooksAborting == Run(preStop, TRUE)

RunPreStopHooks == Run(preStop, FALSE)

RunPostStopHooks == Run(postStop, FALSE)

\* values of the type `when` that are none of the five phase constants
UnknownPhases == {"unknown"}

\* runHooks called inside the package with a phase that has no case in its
\* switch
runHooksUnknownPhase ==
    \E w \in UnknownPhases, exitOnError \in BOOLEAN : Run(w, exitOnError)

(***************************************************************************)
(* The Manager's specification                                             *)
(***************************************************************************)
ExampleTask ==
    [Network |-> "BRIDGE", PortMappings |-> <<>>, Labels |-> <<>>]

ExampleConfig ==
    [chain |-> "", external_interface |-> "", default_allowed_cidr |-> <<>>]

\* NewManager(hooks): the enabled set is the set of the names given
NewManager(hooks) == {hooks[i] : i \in 1..Len(hooks)}

Init ==
    /\ EnabledHooks \in {NewManager(hooks) : hooks \in EnabledLists}
    /\ Hooks = <<>>
    /\ when = "none"
    /\ invoked = <<>>
    /\ ret = NilErr
    /\ fails = {}
    /\ offered = 0
    /\ skipped = FALSE
    /\ taskInfo = ExampleTask
    /\ viper = ExampleConfig
    /\ filterChains = <<>>
    /\ callback = "none"
    /\ previous = "none"
    /\ driverCalls = <<>>
    /\ aclErr = "NoError"
    /\ reads = <<>>
    /\ NoContainers

Next ==
    \/ RegisterHooks
    \/ RunPreCreateHooks
    \/ RunPreRunHooks
    \/ RunPostRunHooks
    \/ RunPreStopHooks
    \/ RunPostStopHooks
    \/ runHooksUnknownPhase

Spec == Init /\ [][Next]_vars

(***************************************************************************)
(* The ACL hook.                                                           *)
(*                                                                         *)
(* Text is kept as a sequence of pieces so that the regular expression,    *)
(* strings.Split, strconv.Atoi and the address parsers act on it.  A label *)
(* key is a sequence of the pieces "EXECUTOR_", "_ACL", decimal digits and *)
(* other text; a label value is a sequence of addresses, prefix lengths,   *)
(* other text and "," separators.  No piece holds a space.                 *)
(***************************************************************************)
MaxLabels == 2      \* labels of a task

aclHookRuleTemplate ==
    <<"-i", "%s", "-p", "%s", "-s", "%s", "--dport", "%s", "-j", "ACCEPT">>

Digits == {"0", "1", "2", "3", "4", "5", "6", "7", "8", "9"}

DigitValue(d) == CHOOSE n \in 0..9 : ToString(n) = d

\* last position of the run of digits that starts at position j (j - 1 if none)
RECURSIVE DigitRunEnd(_, _)
DigitRunEnd(key, j) ==
    IF j <= Len(key) /\ key[j] \in Digits THEN DigitRunEnd(key, j + 1) ELSE j - 1

\* EXECUTOR_(?P<portIndex>[0-9]+)_ACL matches at position i
MatchesAt(key, i) ==
    /\ key[i] = "EXECUTOR_"
    /\ DigitRunEnd(key, i + 1) >= i + 1
    /\ DigitRunEnd(key, i + 1) + 1 <= Len(key)
    /\ key[DigitRunEnd(key, i + 1) + 1] = "_ACL"

\* aclHookLabel.FindStringSubmatch(key): <<>> (nil) without a match, otherwise
\* the leftmost match and its portIndex group
FindStringSubmatch(key) ==
    LET starts == {i \in 1..Len(key) : MatchesAt(key, i)} IN
    IF starts = {} THEN <<>>
    ELSE LET i == CHOOSE a \in starts : \A b \in starts : a <= b
             k == DigitRunEnd(key, i + 1)
         IN <<SubSeq(key, i, k + 1), SubSeq(key, i + 1, k)>>

\* strconv.Atoi of a digit string: up to 18 digits always fit an int
RECURSIVE DecimalValue(_)
DecimalValue(ds) ==
    IF ds = <<>> THEN 0
    ELSE 10 * DecimalValue(SubSeq(ds, 1, Len(ds) - 1)) + DigitValue(ds[Len(ds)])

Atoi(ds) ==
    IF Len(ds) = 0 \/ Len(ds) > 18 THEN [val |-> 0, err |-> TRUE]
    ELSE [val |-> DecimalValue(ds), err |-> FALSE]

\* strings.Split(value, ","): the pieces between the separators
RECURSIVE Split(_)
Split(value) ==
    LET commas == {i \in 1..Len(value) : value[i] = ","} IN
    IF commas = {} THEN <<value>>
    ELSE LET c == CHOOSE a \in commas : \A b \in commas : a <= b
         IN <<SubSeq(value, 1, c - 1)>> \o Split(SubSeq(value, c + 1, Len(value)))

\* the string a sequence of pieces spells
RECURSIVE Text(_)
Text(pieces) == IF pieces = <<>> THEN "" ELSE Head(pieces) \o Text(Tail(pieces))

Addresses == {"10.0.0.5", "10.1.0.0"}
PrefixLengths == {"/24", "/32"}

\* net.ParseIP(ip) != nil
ParseIP(ip) == Len(ip) = 1 /\ ip[1] \in Addresses

\* net.ParseCIDR(ip) returns no error
ParseCIDR(ip) == Len(ip) = 2 /\ ip[1] \in Addresses /\ ip[2] \in PrefixLengths

\* fmt.Sprintf(aclHookRuleTemplate, ...) then strings.Split(aclRule, " ")
RECURSIVE Sprintf(_, _)
Sprintf(template, args) ==
    IF template = <<>> THEN <<>>
    ELSE IF Head(template) = "%s"
         THEN <<Head(args)>> \o Sprintf(Tail(template), Tail(args))
         ELSE <<Head(template)>> \o Sprintf(Tail(template), args)

aclRuleSwapped(externalInterface, portMapping, ip) ==
    Sprintf(aclHookRuleTemplate,
            <<externalInterface, ip, portMapping.Protocol,
              ToString(portMapping.HostPort)>>)

aclRule(externalInterface, portMapping, ip) ==
    Sprintf(aclHookRuleTemplate,
            <<externalInterface, portMapping.Protocol, ip,
              ToString(portMapping.HostPort)>>)

RECURSIVE parseIPsSkippingInvalid(_, _, _)
parseIPsSkippingInvalid(ips, i, parsedIPs) ==
    IF i > Len(ips) THEN [parsedIPs |-> parsedIPs, err |-> "NoError"]
    ELSE IF ParseIP(ips[i])
         THEN parseIPsSkippingInvalid(ips, i + 1,
                                      Append(parsedIPs, Text(ips[i]) \o "/32"))
    ELSE IF ParseCIDR(ips[i])
         THEN parseIPsSkippingInvalid(ips, i + 1, Append(parsedIPs, Text(ips[i])))
    ELSE parseIPsSkippingInvalid(ips, i + 1, parsedIPs)

\* the label loop's address check: the parsedIPs, or the first invalid entry
RECURSIVE parseIPs(_, _, _)
parseIPs(ips, i, parsedIPs) ==
    IF i > Len(ips) THEN [parsedIPs |-> parsedIPs, err |-> "NoError"]
    ELSE IF ParseIP(ips[i])
         THEN parseIPs(ips, i + 1, Append(parsedIPs, Text(ips[i]) \o "/32"))
    ELSE IF ParseCIDR(ips[i])
         THEN parseIPs(ips, i + 1, Append(parsedIPs, Text(ips[i])))
    ELSE [parsedIPs |-> <<>>, err |-> "InvalidIP"]

\* one driver call
DriverCall(op, chain, rulespec, failed) ==
    [op |-> op, table |-> "filter", chain |-> chain, rulespec |-> rulespec,
     err |-> failed]

\* a loop that hands rules to the action one by one; the calls whose position
\* among the actions of this invocation is in failing are rejected (first is
\* the place in the call log of the invocation's first action)
RECURSIVE applyRules(_, _, _, _, _, _, _, _)
applyRules(rules, i, chain, op, stopOnError, failing, first, calls) ==
    IF i > Len(rules) THEN [calls |-> calls, err |-> "NoError"]
    ELSE LET failed == (Len(calls) + 1 - first + 1) \in failing
             issued == Append(calls, DriverCall(op, chain, rules[i], failed))
         IN IF failed /\ stopOnError
            THEN [calls |-> issued, err |-> "ActionError"]
            ELSE applyRules(rules, i + 1, chain, op, stopOnError, failing, first,
                            issued)

\* the rules of acl.default_allowed_cidr: one per network and port mapping
defaultRules(externalInterface, portMappings, defaultAllowedCIDR) ==
    LET n == Len(portMappings) IN
    [k \in 1..(Len(defaultAllowedCIDR) * n) |->
        aclRule(externalInterface,
                portMappings[((k - 1) % n) + 1],
                defaultAllowedCIDR[((k - 1) \div n) + 1])]

\* the rules of one label that passed the checks
labelRules(externalInterface, portMapping, parsedIPs) ==
    [k \in 1..Len(parsedIPs) |-> aclRule(externalInterface, portMapping, parsedIPs[k])]

RECURSIVE generateACLFrom(_, _, _, _, _, _, _, _, _)
generateACLFrom(info, li, externalInterface, chain, op, stopOnError, failing, first, calls) ==
    LET portMappings == info.PortMappings IN
    IF li > Len(info.Labels)
    THEN LET defaults == applyRules(defaultRules(externalInterface, portMappings,
                                                 viper.default_allowed_cidr),
                                    1, chain, op, stopOnError, failing, first, calls)
         IN [calls |-> defaults.calls, err |-> defaults.err,
             reads |-> <<"acl.default_allowed_cidr">>]
    ELSE
    LET label == info.Labels[li]
        match == FindStringSubmatch(label.Key)
    IN
    IF match = <<>>
    THEN generateACLFrom(info, li + 1, externalInterface, chain, op, stopOnError,
                         failing, first, calls)
    ELSE IF Len(match) <= 1 THEN [calls |-> calls, err |-> "NoPortIndex", reads |-> <<>>]
    ELSE IF Atoi(match[2]).err THEN [calls |-> calls, err |-> "PortIndexInvalid", reads |-> <<>>]
    ELSE IF ~(Len(portMappings) > Atoi(match[2]).val)
         THEN [calls |-> calls, err |-> "PortIndexUnmatched", reads |-> <<>>]
    ELSE
    LET portMapping == portMappings[Atoi(match[2]).val + 1]
        parsed == parseIPs(Split(label.Value), 1, <<>>)
    IN
    IF parsed.err # "NoError"
    THEN [calls |-> calls, err |-> parsed.err, reads |-> <<>>]
    ELSE
    LET injected == applyRules(labelRules(externalInterface, portMapping,
                                          parsed.parsedIPs),
                               1, chain, op, stopOnError, failing, first, calls)
    IN
    IF injected.err # "NoError"
    THEN [calls |-> injected.calls, err |-> injected.err, reads |-> <<>>]
    ELSE generateACLFrom(info, li + 1, externalInterface, chain, op, stopOnError,
                         failing, first, injected.calls)

generateACLRollingBack(info, chain, op, stopOnError, failing, calls) ==
    LET externalInterface ==
            IF viper.external_interface = "" THEN "all"
            ELSE viper.external_interface
        generated == generateACLFrom(info, 1, externalInterface, chain, op,
                                     stopOnError, failing, Len(calls) + 1, calls)
        accepted == SelectSeq(generated.calls, LAMBDA c : c.op = "Append" /\ ~c.err)
        undone == [i \in 1..Len(accepted) |->
                      DriverCall("Delete", chain, accepted[i].rulespec, FALSE)]
    IN [calls |-> IF generated.err # "NoError" /\ op = "Append"
                  THEN generated.calls \o undone
                  ELSE generated.calls,
        err |-> generated.err,
        reads |-> <<"acl.external_interface">> \o generated.reads]

generateACL(info, chain, op, stopOnError, failing, calls) ==
    LET externalInterface ==
            IF viper.external_interface = "" THEN "all"
            ELSE viper.external_interface
        generated == generateACLFrom(info, 1, externalInterface, chain, op,
                                     stopOnError, failing, Len(calls) + 1, calls)
    IN [calls |-> generated.calls, err |-> generated.err,
        reads |-> <<"acl.external_interface">> \o generated.reads]

checkChainListsFirst(listFails) ==
    LET aclChain == viper.chain
        listed == <<DriverCall("ListChains", "", <<>>, listFails)>>
    IN
    IF aclChain = "" THEN [chain |-> "", err |-> "NoChain", calls |-> <<>>]
    ELSE IF listFails THEN [chain |-> "", err |-> "ListChainsError", calls |-> listed]
    ELSE IF aclChain = "FORWARD" \/ aclChain = "OUTPUT"
         THEN [chain |-> "", err |-> "BuiltinChain", calls |-> listed]
    ELSE IF \E i \in 1..Len(filterChains) : filterChains[i] = aclChain
         THEN [chain |-> aclChain, err |-> "NoError", calls |-> listed]
    ELSE [chain |-> "", err |-> "ChainNotFound", calls |-> listed]

checkChainTrusting(listFails) ==
    LET aclChain == viper.chain
        listed == <<DriverCall("ListChains", "", <<>>, listFails)>>
    IN
    IF aclChain = "" THEN [chain |-> "", err |-> "NoChain", calls |-> <<>>]
    ELSE IF aclChain = "FORWARD" \/ aclChain = "OUTPUT"
         THEN [chain |-> "", err |-> "BuiltinChain", calls |-> <<>>]
    ELSE IF listFails THEN [chain |-> "", err |-> "ListChainsError", calls |-> listed]
    ELSE [chain |-> aclChain, err |-> "NoError", calls |-> listed]

checkChain(listFails) ==
    LET aclChain == viper.chain
        listed == <<DriverCall("ListChains", "", <<>>, listFails)>>
    IN
    IF aclChain = "" THEN [chain |-> "", err |-> "NoChain", calls |-> <<>>]
    ELSE IF aclChain = "FORWARD" \/ aclChain = "OUTPUT"
         THEN [chain |-> "", err |-> "BuiltinChain", calls |-> <<>>]
    ELSE IF listFails THEN [chain |-> "", err |-> "ListChainsError", calls |-> listed]
    ELSE IF \E i \in 1..Len(filterChains) : filterChains[i] = aclChain
         THEN [chain |-> aclChain, err |-> "NoError", calls |-> listed]
    ELSE [chain |-> "", err |-> "ChainNotFound", calls |-> listed]

ACLCallbackUngated(op, stopOnError, newFails, listFails, failing) ==
    IF newFails THEN [calls |-> <<>>, err |-> "NewError", reads |-> <<>>]
    ELSE LET checked == checkChain(listFails) IN
         IF checked.err # "NoError"
         THEN [calls |-> checked.calls, err |-> checked.err, reads |-> <<"acl.chain">>]
         ELSE LET generated == generateACL(taskInfo, checked.chain, op, stopOnError,
                                           failing, checked.calls)
              IN [calls |-> generated.calls, err |-> generated.err,
                  reads |-> <<"acl.chain">> \o generated.reads]

\* the body shared by ACLHook.RunPostRun (driver.Append, true) and
\* ACLHook.RunPreStop (driver.Delete, false)
ACLCallback(op, stopOnError, newFails, listFails, failing) ==
    IF taskInfo.Network # "BRIDGE" /\ taskInfo.Network # "USER"
    THEN [calls |-> <<>>, err |-> "NoError", reads |-> <<>>]
    ELSE IF newFails THEN [calls |-> <<>>, err |-> "NewError", reads |-> <<>>]
    ELSE LET checked == checkChain(listFails) IN
         IF checked.err # "NoError"
         THEN [calls |-> checked.calls, err |-> checked.err, reads |-> <<"acl.chain">>]
         ELSE LET generated == generateACL(taskInfo, checked.chain, op, stopOnError,
                                           failing, checked.calls)
              IN [calls |-> generated.calls, err |-> generated.err,
                  reads |-> <<"acl.chain">> \o generated.reads]

\* how many actions an invocation issues when none is rejected
ActionCount(op) ==
    Len(SelectSeq(ACLCallback(op, FALSE, FALSE, FALSE, {}).calls,
                  LAMBDA c : c.op = op))

\* the positions at which the driver rejects an action, out of n actions:
\* nowhere, at any one position, or everywhere
Rejections(n) == {{}} \cup {{i} : i \in 1..n} \cup {1..n}

\* the ACL hook as registered: it has the post-run and pre-stop callbacks
ACLHook == [id |-> 1, Name |-> "acl", Priority |-> 0, Callbacks |-> {postRun, preStop}]

\* One invocation of an ACL callback by the Manager's Run*Hooks entry point of
\* its phase.  The driver's behaviour is an input: iptables.New fails, or
\* ListChains fails, or the actions at the positions in failing are rejected.
\* The Manager stops on a failed callback in the set-up phases only.
ACLInvoke(name, op, stopOnError) ==
    \E newFails, listFails \in BOOLEAN :
        \E failing \in Rejections(ActionCount(op)) :
            /\ newFails => ~listFails
            /\ (newFails \/ listFails) => failing = {}
            /\ \E r \in {ACLCallback(op, stopOnError, newFails, listFails, failing)} :
               \E failed \in {IF r.err # "NoError" THEN CallbackIds(Hooks, name) ELSE {}} :
               \E m \in {runHooks(Hooks, name, name \in {preCreate, preRun, postRun},
                                 failed)} :
                   /\ callback' = name
                   /\ previous' = IF name = preStop THEN callback ELSE "none"
                   /\ driverCalls' = r.calls
                   /\ aclErr' = r.err
                   /\ reads' = r.reads
                   /\ when' = name
                   /\ fails' = failed
                   /\ invoked' = m.invoked
                   /\ ret' = m.ret
            /\ UNCHANGED <<taskInfo, viper, filterChains>>
            /\ UNCHANGED <<EnabledHooks, Hooks, offered, skipped>>
            /\ UNCHANGED ctrVars

ACLRunPostRunContinuing == ACLInvoke(postRun, "Append", FALSE)

ACLRunPostRun == ACLInvoke(postRun, "Append", TRUE)

ACLRunPreStopStopping == ACLInvoke(preStop, "Delete", TRUE)

ACLRunPreStop == ACLInvoke(preStop, "Delete", FALSE)

(***************************************************************************)
(* The ACL hook's specification: the task, the configuration and the       *)
(* filter table are drawn once; the callbacks then run in any order.       *)
(***************************************************************************)
Networks == {"HOST", "BRIDGE", "USER"}

PortMappingLists ==
    {<<[Protocol |-> "tcp", HostPort |-> 8080]>>,
     <<[Protocol |-> "tcp", HostPort |-> 8080], [Protocol |-> "udp", HostPort |-> 53]>>}

LabelPool ==
    {[Key |-> <<"EXECUTOR_", "0", "_ACL">>,
      Value |-> <<"10.0.0.5", ",", "10.1.0.0", "/24">>],
     [Key |-> <<"EXECUTOR_", "5", "_ACL">>, Value |-> <<"10.0.0.5">>],
     [Key |-> <<"EXECUTOR_", "0", "_ACL">>, Value |-> <<"10.0.0.5", ",", "bad">>],
     [Key |-> <<"my.", "EXECUTOR_", "0", "1", "_ACL", ".v2">>,
      Value |-> <<"10.1.0.0", "/24">>],
     [Key |-> <<"EXECUTOR_", "_ACL">>, Value |-> <<"bad">>]}

ChainSettings == {"", "FORWARD", "OUTPUT", "MESOS-ACL", "MISSING"}
InterfaceSettings == {"", "eth0"}
AllowedCIDRSettings == {<<>>, <<"192.168.0.0/16">>}

InitACL ==
    /\ EnabledHooks = {"acl"}
    /\ Hooks = <<ACLHook>>
    /\ when = "none"
    /\ invoked = <<>>
    /\ ret = NilErr
    /\ fails = {}
    /\ offered = 1
    /\ skipped = FALSE
    /\ taskInfo \in [Network : Networks,
                     PortMappings : PortMappingLists,
                     Labels : SeqsUpTo(LabelPool, MaxLabels)]
    /\ viper \in [chain : ChainSettings,
                  external_interface : InterfaceSettings,
                  default_allowed_cidr : AllowedCIDRSettings]
    /\ filterChains = <<"INPUT", "FORWARD", "OUTPUT", "MESOS-ACL">>
    /\ callback = "none"
    /\ previous = "none"
    /\ driverCalls = <<>>
    /\ aclErr = "NoError"
    /\ reads = <<>>
    /\ NoContainers

NextACL ==
    \/ ACLRunPostRun
    \/ ACLRunPreStop

SpecACL == InitACL /\ [][NextACL]_vars

(***************************************************************************)
(* Properties of the Manager (checked under Spec)                          *)
(***************************************************************************)
SetupPhases == {preCreate, preRun, postRun}
TeardownPhases == {preStop, postStop}

\* the registered hook with the given id
HookOf(id) == CHOOSE h \in {Hooks[i] : i \in 1..Len(Hooks)} : h.id = id

\* the ids, in run order, of the registered hooks that have a callback for w
WithCallback(w) ==
    LET present == SelectSeq(Hooks, LAMBDA h : w \in h.Callbacks)
    IN [i \in 1..Len(present) |-> present[i].id]

\* positions, among the hooks with a callback for w, of those that fail
FailingAt(w) == {i \in 1..Len(WithCallback(w)) : WithCallback(w)[i] \in fails}

FirstFailing(w) == CHOOSE i \in FailingAt(w) : \A j \in FailingAt(w) : i <= j

\* C1: after any sequence of RegisterHooks calls the registered list is
\* non-increasing by Priority, and so is the order in which a Run*Hooks call
\* visits the hooks.
C1_SortedByPriority ==
    /\ \A i \in 1..(Len(Hooks) - 1) : Hooks[i].Priority >= Hooks[i + 1].Priority
    /\ \A i \in 1..(Len(invoked) - 1) :
           HookOf(invoked[i]).Priority >= HookOf(invoked[i + 1]).Priority

\* a low-priority hook registered before a high-priority one, and a run that
\* visited both
C1_Witness ==
    /\ \E i, j \in 1..Len(Hooks) :
           /\ i < j
           /\ Hooks[i].id > Hooks[j].id
           /\ Hooks[i].Priority > Hooks[j].Priority
    /\ \E i, j \in 1..Len(invoked) :
           i < j /\ HookOf(invoked[i]).Priority > HookOf(invoked[j]).Priority

\* C2: two registered hooks of equal Priority appear in run order in the
\* order in which they were registered (the re-sort is stable).
C2_TiesKeepRegistrationOrder ==
    \A i, j \in 1..Len(Hooks) :
        (i < j /\ Hooks[i].Priority = Hooks[j].Priority) => Hooks[i].id < Hooks[j].id

\* C3: a hook whose Name is not enabled when it is handed to RegisterHooks is
\* never registered and none of its callbacks is ever invoked; the enabled
\* hooks handed over in the same call are registered.
C3_DisabledNeverRegistered ==
    /\ \A i \in 1..Len(Hooks) : Hooks[i].Name \in EnabledHooks
    /\ \A i \in 1..Len(invoked) :
           /\ invoked[i] \in HookIds(Hooks)
           /\ HookOf(invoked[i]).Name \in EnabledHooks
    /\ Len(Hooks) = offered

\* a call that was handed a disabled hook next to an enabled one, then a run
C3_Witness ==
    /\ skipped
    /\ Len(Hooks) >= 2
    /\ Len(invoked) >= 2

\* C4: in a setup phase, when H is the first hook in run order whose callback
\* is present and fails, exactly the hooks with a callback up to and
\* including H were invoked, once each and in run order, none after H, and
\* the call returned H's error.
C4_SetupStopsAtFirstFailure ==
    (when \in SetupPhases /\ FailingAt(when) # {}) =>
        /\ invoked = SubSeq(WithCallback(when), 1, FirstFailing(when))
        /\ ret = WithCallback(when)[FirstFailing(when)]

\* a failing hook with a hook invoked before it and a hook left out after it
C4_Witness ==
    /\ when \in SetupPhases
    /\ FailingAt(when) # {}
    /\ FirstFailing(when) > 1
    /\ FirstFailing(when) < Len(WithCallback(when))

\* C5: in a teardown phase every registered hook with a callback for the
\* phase is invoked exactly once, in run order, whichever of them fail, and
\* the call returns nil.
C5_TeardownRunsAll ==
    when \in TeardownPhases =>
        /\ invoked = WithCallback(when)
        /\ ret = NilErr

\* a teardown run in which every invoked callback failed
C5_Witness ==
    /\ when \in TeardownPhases
    /\ Len(invoked) >= 2
    /\ fails = {invoked[i] : i \in 1..Len(invoked)}
    /\ ret = NilErr

\* C6: a registered hook whose callback for the phase is nil is skipped: it is
\* not invoked, and the call invokes the same hooks and returns the same
\* value as a call on the list without the hooks that lack the callback.
C6_AbsentCallbackSkipped ==
    when \in Phases =>
        LET present == SelectSeq(Hooks, LAMBDA h : when \in h.Callbacks)
            r == runHooks(present, when, when \in SetupPhases, fails)
        IN /\ \A i \in 1..Len(invoked) : when \in HookOf(invoked[i]).Callbacks
           /\ invoked = r.invoked
           /\ ret = r.ret

\* a hook without the callback ahead of a hook that was invoked
C6_Witness ==
    /\ when \in Phases
    /\ \E i, j \in 1..Len(Hooks) :
           /\ i < j
           /\ when \notin Hooks[i].Callbacks
           /\ \E k \in 1..Len(invoked) : invoked[k] = Hooks[j].id

(***************************************************************************)
(* Properties of the ACL hook (checked under SpecACL)                      *)
(***************************************************************************)
\* the last callback passed the network gate, built the driver and resolved
\* the chain, so that generateACL ran
GenerateReached ==
    /\ callback # "none"
    /\ taskInfo.Network \in {"BRIDGE", "USER"}
    /\ aclErr \notin {"NewError", "NoChain", "BuiltinChain", "ListChainsError",
                      "ChainNotFound"}

\* the append and delete calls of the last callback, without their outcome
Actions ==
    LET acts == SelectSeq(driverCalls, LAMBDA c : c.op \in {"Append", "Delete"})
    IN [i \in 1..Len(acts) |->
           [op |-> acts[i].op, table |-> acts[i].table, chain |-> acts[i].chain,
            rulespec |-> acts[i].rulespec]]

\* the last action of the last callback was rejected
LastActionRejected ==
    /\ driverCalls # <<>>
    /\ driverCalls[Len(driverCalls)].op \in {"Append", "Delete"}
    /\ driverCalls[Len(driverCalls)].err

IsPrefix(a, b) == Len(a) <= Len(b) /\ a = SubSeq(b, 1, Len(a))

IsACLLabel(label) == FindStringSubmatch(label.Key) # <<>>

PortIndex(label) == Atoi(FindStringSubmatch(label.Key)[2]).val

EntryValid(e) ==
    \/ Len(e) = 1 /\ e[1] \in Addresses
    \/ Len(e) = 2 /\ e[1] \in Addresses /\ e[2] \in PrefixLengths

LabelValid(label) ==
    /\ PortIndex(label) < Len(taskInfo.PortMappings)
    /\ \A k \in 1..Len(Split(label.Value)) : EntryValid(Split(label.Value)[k])

AllLabelsValid ==
    \A i \in 1..Len(taskInfo.Labels) :
        IsACLLabel(taskInfo.Labels[i]) => LabelValid(taskInfo.Labels[i])

\* the action the claims expect for one source network and one port mapping
ExpectedAction(source, mapping) ==
    [op |-> IF callback = postRun THEN "Append" ELSE "Delete",
     table |-> "filter",
     chain |-> viper.chain,
     rulespec |-> <<"-i",
                    IF viper.external_interface = "" THEN "all"
                    ELSE viper.external_interface,
                    "-p", mapping.Protocol,
                    "-s", source,
                    "--dport", ToString(mapping.HostPort),
                    "-j", "ACCEPT">>]

ExpectedSource(e) == IF Len(e) = 1 THEN e[1] \o "/32" ELSE e[1] \o e[2]

\* one action per entry of each valid ACL label among the first n labels
RECURSIVE ExpectedLabelActions(_)
ExpectedLabelActions(n) ==
    IF n = 0 THEN <<>>
    ELSE LET label == taskInfo.Labels[n] IN
         IF ~IsACLLabel(label) THEN ExpectedLabelActions(n - 1)
         ELSE ExpectedLabelActions(n - 1) \o
              [k \in 1..Len(Split(label.Value)) |->
                  ExpectedAction(ExpectedSource(Split(label.Value)[k]),
                                 taskInfo.PortMappings[PortIndex(label) + 1])]

\* one action per always-allowed network and port mapping
ExpectedDefaultActions ==
    LET n == Len(taskInfo.PortMappings) IN
    [k \in 1..(Len(viper.default_allowed_cidr) * n) |->
        ExpectedAction(viper.default_allowed_cidr[((k - 1) \div n) + 1],
                       taskInfo.PortMappings[((k - 1) % n) + 1])]

ExpectedActions ==
    ExpectedLabelActions(Len(taskInfo.Labels)) \o ExpectedDefaultActions

\* C7 as stated: for a task whose labels are all valid generateACL issues,
\* for each ACL label EXECUTOR_<N>_ACL, exactly one action per entry of the
\* value (a bare address a as a/32, a network unchanged; interface, protocol
\* and host port of port mapping N, target ACCEPT, on the resolved chain) and
\* no other label-derived rule.
C7_OneActionPerEntry ==
    (GenerateReached /\ AllLabelsValid) => Actions = ExpectedActions

\* C7 as amended: the same, unless injection stopped at a rejected append;
\* then the actions issued are the expected ones up to the rejected one.
C7_OneActionPerEntryUnlessRejected ==
    (GenerateReached /\ AllLabelsValid) =>
        IF aclErr = "ActionError"
        THEN callback = postRun /\ LastActionRejected
             /\ IsPrefix(Actions, ExpectedActions)
        ELSE Actions = ExpectedActions

\* the specification's example: EXECUTOR_0_ACL = "10.0.0.5,10.1.0.0/24",
\* port mapping 0 = tcp 8080, interface eth0: two appended rules
C7_Witness ==
    /\ callback = postRun
    /\ aclErr = "NoError"
    /\ taskInfo.Labels = <<[Key |-> <<"EXECUTOR_", "0", "_ACL">>,
                            Value |-> <<"10.0.0.5", ",", "10.1.0.0", "/24">>]>>
    /\ viper.external_interface = "eth0"
    /\ viper.default_allowed_cidr = <<>>
    /\ Actions =
         <<[op |-> "Append", table |-> "filter", chain |-> "MESOS-ACL",
            rulespec |-> <<"-i", "eth0", "-p", "tcp", "-s", "10.0.0.5/32",
                           "--dport", "8080", "-j", "ACCEPT">>],
           [op |-> "Append", table |-> "filter", chain |-> "MESOS-ACL",
            rulespec |-> <<"-i", "eth0", "-p", "tcp", "-s", "10.1.0.0/24",
                           "--dport", "8080", "-j", "ACCEPT">>]>>

\* positions of the ACL labels that fail validation
InvalidLabels ==
    {i \in 1..Len(taskInfo.Labels) :
        IsACLLabel(taskInfo.Labels[i]) /\ ~LabelValid(taskInfo.Labels[i])}

FirstInvalidLabel == CHOOSE i \in InvalidLabels : \A j \in InvalidLabels : i <= j

\* C8: during post-run injection, when an ACL label fails validation the hook
\* returns an error and issues no append for any entry of that label (valid
\* entries ahead of the bad one included), for any later label or for the
\* always-allowed networks: the appends are those of the labels before it.
C8_InvalidLabelInjectsNothing ==
    (callback = postRun /\ GenerateReached /\ InvalidLabels # {}) =>
        /\ aclErr # "NoError"
        /\ IsPrefix(Actions, ExpectedLabelActions(FirstInvalidLabel - 1))
        /\ \/ aclErr = "ActionError" /\ LastActionRejected
           \/ /\ aclErr \in {"PortIndexUnmatched", "InvalidIP"}
              /\ Actions = ExpectedLabelActions(FirstInvalidLabel - 1)

\* a valid label was injected, then a label with a valid entry ahead of a bad
\* one stopped the injection
C8_Witness ==
    /\ callback = postRun
    /\ aclErr = "InvalidIP"
    /\ Len(Actions) = 2
    /\ Len(taskInfo.Labels) = 2
    /\ taskInfo.Labels[2].Value = <<"10.0.0.5", ",", "bad">>
    /\ viper.default_allowed_cidr # <<>>

\* the rule specifications (table, chain, token list) of the op calls of a log
Specs(calls, op) ==
    LET acts == SelectSeq(calls, LAMBDA c : c.op = op)
    IN [i \in 1..Len(acts) |-> <<acts[i].table, acts[i].chain, acts[i].rulespec>>]

Count(seq, x) == Cardinality({i \in 1..Len(seq) : seq[i] = x})

SameMultiset(a, b) ==
    /\ Len(a) = Len(b)
    /\ \A i \in 1..Len(a) : Count(a, a[i]) = Count(b, a[i])

DriverSetupFailed == aclErr \in {"NewError", "ListChainsError"}

\* C9 as stated: the pre-stop hook run after the post-run hook issues exactly
\* one delete per append the post-run hook issued, with the same table, chain
\* and rule tokens.
C9_RoundTrip ==
    [][(callback = postRun /\ callback' = preStop) =>
           SameMultiset(Specs(driverCalls', "Delete"), Specs(driverCalls, "Append"))]_vars

\* C9 as amended: the same, when no append was rejected and driver creation
\* and chain listing succeeded in both invocations.
C9_RoundTripWhenNothingRejected ==
    [][(/\ callback = postRun
        /\ aclErr # "ActionError"
        /\ ~DriverSetupFailed
        /\ callback' = preStop
        /\ ~DriverSetupFailed') =>
           SameMultiset(Specs(driverCalls', "Delete"), Specs(driverCalls, "Append"))]_vars

\* a pre-stop after a post-run that deleted label rules and default rules,
\* one of the deletes being rejected
C9_Witness ==
    /\ callback = preStop
    /\ previous = postRun
    /\ aclErr = "NoError"
    /\ Len(Specs(driverCalls, "Delete")) >= 3
    /\ \E i \in 1..Len(driverCalls) : driverCalls[i].op = "Delete" /\ driverCalls[i].err

\* C10: with acl.chain set to FORWARD or OUTPUT chain resolution fails with
\* a configuration error before any list-chains, append or delete call.
C10_BuiltinChainRejectedBeforeListing ==
    (callback # "none" /\ viper.chain \in {"FORWARD", "OUTPUT"}) =>
        /\ driverCalls = <<>>
        /\ (taskInfo.Network \in {"BRIDGE", "USER"} /\ aclErr # "NewError")
              => aclErr = "BuiltinChain"

C10_Witness ==
    /\ callback = postRun
    /\ viper.chain = "OUTPUT"
    /\ taskInfo.Network = "BRIDGE"
    /\ aclErr = "BuiltinChain"
    /\ driverCalls = <<>>

\* the rules the pre-stop hook can derive from the task and the configuration:
\* one per valid entry of each ACL label that names a declared port mapping,
\* and one per always-allowed network and port mapping
DerivableLabelActions ==
    UNION {{ExpectedAction(ExpectedSource(Split(taskInfo.Labels[i].Value)[k]),
                           taskInfo.PortMappings[PortIndex(taskInfo.Labels[i]) + 1]) :
               k \in {e \in 1..Len(Split(taskInfo.Labels[i].Value)) :
                         EntryValid(Split(taskInfo.Labels[i].Value)[e])}} :
           i \in {l \in 1..Len(taskInfo.Labels) :
                     /\ IsACLLabel(taskInfo.Labels[l])
                     /\ PortIndex(taskInfo.Labels[l]) < Len(taskInfo.PortMappings)}}

DerivableDefaultActions ==
    {ExpectedDefaultActions[k] : k \in 1..Len(ExpectedDefaultActions)}

Attempted == {Actions[i] : i \in 1..Len(Actions)}

\* C11 as stated: during pre-stop retraction a failure on one rule (a rejected
\* delete, a malformed label, a label naming an undeclared port) does not end
\* the run: a delete is still attempted for every other rule that can be
\* derived from the remaining entries, the remaining labels and the
\* always-allowed networks.
C11_RetractionAttemptsEveryDerivableRule ==
    (callback = preStop /\ GenerateReached) =>
        (DerivableLabelActions \cup DerivableDefaultActions) \subseteq Attempted

\* C12 as stated: whenever the hook passes the network gate and chain
\* resolution it issues exactly one action for every pair of an always-allowed
\* network and a declared port mapping, whatever labels the task carries
\* (present, absent or invalid).
C12_AlwaysAllowedIndependentOfLabels ==
    GenerateReached =>
        \A k \in 1..Len(ExpectedDefaultActions) :
            Count(Actions, ExpectedDefaultActions[k]) = 1

\* C13: when the task's network mode is neither bridge nor user-defined, both
\* ACL callbacks return success without any driver call (no chain listing, no
\* append, no delete) and without reading the chain configuration.
C13_OtherNetworksAreNoOp ==
    (callback # "none" /\ taskInfo.Network \notin {"BRIDGE", "USER"}) =>
        /\ aclErr = "NoError"
        /\ driverCalls = <<>>
        /\ reads = <<>>

\* a host-network task with ACL labels, a usable chain and always-allowed
\* networks went through post-run and then pre-stop
C13_Witness ==
    /\ callback = preStop
    /\ previous = postRun
    /\ taskInfo.Network = "HOST"
    /\ taskInfo.Labels # <<>>
    /\ viper.chain = "MESOS-ACL"
    /\ viper.default_allowed_cidr # <<>>
    /\ aclErr = "NoError"
    /\ driverCalls = <<>>
    /\ reads = <<>>

\* the chains the filter table holds
Listed == {filterChains[i] : i \in 1..Len(filterChains)}

\* C17: when acl.chain is unset or names a chain that is not among the chains
\* listed for the filter table, the callback returns an error (the
\* configuration error, or "chain not found" once the listing succeeded),
\* issues no append or delete and never creates the chain; every append or
\* delete is on the configured chain, found in the listing that the same
\* invocation made before it.
C17_ActionsOnlyOnListedChain ==
    /\ \A i \in 1..Len(driverCalls) :
           /\ driverCalls[i].op \in {"ListChains", "Append", "Delete"}
           /\ driverCalls[i].op \in {"Append", "Delete"} =>
                 /\ driverCalls[i].chain = viper.chain
                 /\ driverCalls[i].chain \in Listed
                 /\ \E j \in 1..(i - 1) :
                        driverCalls[j].op = "ListChains" /\ ~driverCalls[j].err
    /\ (/\ callback # "none"
        /\ taskInfo.Network \in {"BRIDGE", "USER"}
        /\ viper.chain \notin Listed) =>
           /\ Actions = <<>>
           /\ aclErr \in {"NewError", "NoChain", "ListChainsError", "ChainNotFound"}
           /\ (aclErr = "NoChain") = (viper.chain = "" /\ aclErr # "NewError")
           /\ (viper.chain # "" /\ aclErr \notin {"NewError", "ListChainsError"})
                 => aclErr = "ChainNotFound"

\* a task with ACL labels and always-allowed networks, the configured chain
\* missing from the listing: the listing is the only driver call
C17_Witness ==
    /\ callback = postRun
    /\ taskInfo.Network = "BRIDGE"
    /\ taskInfo.Labels # <<>>
    /\ viper.chain = "MISSING"
    /\ viper.default_allowed_cidr # <<>>
    /\ aclErr = "ChainNotFound"
    /\ Len(driverCalls) = 1
    /\ driverCalls[1].op = "ListChains"

\* positions of the rejected append and delete calls of the last callback
RejectedAt ==
    {i \in 1..Len(driverCalls) :
        driverCalls[i].op \in {"Append", "Delete"} /\ driverCalls[i].err}

\* C18: during post-run injection the first append the driver rejects ends
\* the injection: it is the last driver call (no append follows for the
\* remaining entries, labels or always-allowed networks), the hook returns an
\* error, and RunPostRunHooks returns the failing hook's error.
C18_FirstRejectedAppendEndsInjection ==
    (callback = postRun /\ RejectedAt # {}) =>
        /\ RejectedAt = {Len(driverCalls)}
        /\ aclErr = "ActionError"
        /\ when = postRun
        /\ invoked = <<ACLHook.id>>
        /\ ret = ACLHook.id

\* the first of several appends was rejected: label entries and
\* always-allowed networks were still to come
C18_Witness ==
    /\ callback = postRun
    /\ RejectedAt = {2}
    /\ Len(driverCalls) = 2
    /\ Len(ExpectedActions) >= 4
    /\ AllLabelsValid
    /\ viper.default_allowed_cidr # <<>>
    /\ ret = ACLHook.id

(***************************************************************************)
(* Further properties of the Manager (checked under Spec)                  *)
(***************************************************************************)
\* C16 as stated: runHooks called with a phase that is none of the five
\* phases returns an error and invokes no callback, for every hook list (the
\* empty one included) and whatever exitOnError is.
C16_UnknownPhaseFails ==
    (when # "none" /\ when \notin Phases) =>
        /\ ret = UnknownPhaseErr
        /\ invoked = <<>>

\* C20: no Run*Hooks call changes the Manager: the hook list and the enabled
\* set are the same after the call as before it, whether the call succeeded,
\* aborted on a failure or continued past one; a repeated call of the same
\* phase walks the same hooks in the same order (the callbacks invoked by one
\* call are a prefix of those invoked by the other, and the same when the
\* same callbacks fail).
C20_RunLeavesManagerUnchanged ==
    [][when' \in Phases =>
          /\ Hooks' = Hooks
          /\ EnabledHooks' = EnabledHooks
          /\ when = when' =>
                /\ IsPrefix(invoked, invoked') \/ IsPrefix(invoked', invoked)
                /\ fails' = fails => (invoked' = invoked /\ ret' = ret)]_vars

\* a set-up call aborted at a failing hook with hooks still to run, on a
\* full hook list that is still in place
C20_Witness ==
    /\ Len(Hooks) = MaxHooks
    /\ EnabledHooks # {}
    /\ when \in SetupPhases
    /\ fails # {}
    /\ ret # NilErr
    /\ Len(invoked) < Len(WithCallback(when))

(***************************************************************************)
(* The containerd backend (container package).                             *)
(*                                                                         *)
(* containerd is the environment: per container id it holds no container,  *)
(* a container without task, or a task that is created, running or         *)
(* stopped.  Every containerd call can fail; which calls fail is an input  *)
(* of each operation.  ContainerStop blocks at its receive on the exit     *)
(* channel, so it is two steps: up to the receive, and from the receive on.*)
(***************************************************************************)
SIGKILL == "SIGKILL"
SIGTERM == "SIGTERM"

\* containerd.Stopped, and the zero value of containerd.Status.Status
Stopped == "stopped"
ZeroStatus == ""

\* a nil `chan error`
NilChan == "nil"

ClientCall(op) == [op |-> op, signal |-> ""]
KillCall(signal) == [op |-> "Kill", signal |-> signal]

\* ContainerCreate(info) with info.Name = id: the image pull or NewContainer
\* can fail, NewContainer fails when the id is taken
ContainerCreate(id) ==
    \E pullErr, newContainerErr \in BOOLEAN :
        /\ tasks' = IF pullErr \/ newContainerErr \/ tasks[id] # "absent" THEN tasks
                    ELSE [tasks EXCEPT ![id] = "notask"]
        /\ UNCHANGED <<stopPc, stopId, stopSaw, stopCalls, stopRet, execChan, execCaller>>
        /\ UNCHANGED <<mgrVars, aclVars>>

\* ContainerRun(id): LoadContainer, NewTask, Start
ContainerRun(id) ==
    \E newTaskErr, startErr \in BOOLEAN :
        /\ tasks' = IF tasks[id] = "absent" THEN tasks
                    ELSE IF tasks[id] # "notask" \/ newTaskErr THEN tasks
                    ELSE IF startErr THEN [tasks EXCEPT ![id] = "created"]
                    ELSE [tasks EXCEPT ![id] = "running"]
        /\ UNCHANGED <<stopPc, stopId, stopSaw, stopCalls, stopRet, execChan, execCaller>>
        /\ UNCHANGED <<mgrVars, aclVars>>

\* the task's process ends, by itself or because ContainerStop's signal
\* reached it; containerd then has an exit status for task.Wait's channel
TaskExit(id) ==
    /\ \/ tasks[id] = "running"
       \/ tasks[id] = "created" /\ stopPc = "waiting" /\ stopId = id
    /\ tasks' = [tasks EXCEPT ![id] = Stopped]
    /\ UNCHANGED <<stopPc, stopId, stopSaw, stopCalls, stopRet, execChan, execCaller>>
    /\ UNCHANGED <<mgrVars, aclVars>>

\* ContainerStop from task.Delete on
stopDelete(calls, deleteErr) ==
    [calls |-> Append(calls, ClientCall("Delete")),
     ret |-> IF deleteErr THEN "err" ELSE "nil",
     pc |-> "done",
     deleted |-> ~deleteErr]

\* ContainerStop up to the receive on the exit channel, for a container whose
\* state in containerd is task.  The error of task.Status is dropped: when
\* the call fails the status compared with Stopped is the zero value.
stopBegin(task, loadErr, taskErr, statusErr, killErr, deleteErr) ==
    LET loaded == <<ClientCall("LoadContainer")>>
        found == Append(loaded, ClientCall("Task"))
        asked == Append(found, ClientCall("Status"))
        killed == asked \o <<ClientCall("Wait"), KillCall(SIGKILL)>>
        taskstatus == IF statusErr THEN ZeroStatus ELSE task
    IN
    IF task = "absent" \/ loadErr
    THEN [calls |-> loaded, ret |-> "nil", pc |-> "done", deleted |-> FALSE]
    ELSE IF task = "notask" \/ taskErr
    THEN [calls |-> found, ret |-> "nil", pc |-> "done", deleted |-> FALSE]
    ELSE IF taskstatus # Stopped
    THEN IF killErr
         THEN [calls |-> killed, ret |-> "err", pc |-> "done", deleted |-> FALSE]
         ELSE [calls |-> killed, ret |-> "none", pc |-> "waiting", deleted |-> FALSE]
    ELSE stopDelete(asked, deleteErr)

\* ContainerStop from the receive on the exit channel on
stopResume(calls, resultErr, deleteErr) ==
    IF resultErr
    THEN [calls |-> Append(calls, ClientCall("Result")), ret |-> "err",
          pc |-> "done", deleted |-> FALSE]
    ELSE stopDelete(Append(calls, ClientCall("Result")), deleteErr)

\* a call of ContainerStop(id), until it returns or blocks on the exit channel
ContainerStop(id) ==
    /\ stopPc # "waiting"
    /\ \E loadErr, taskErr, statusErr, killErr, deleteErr \in BOOLEAN :
       \E r \in {stopBegin(tasks[id], loadErr, taskErr, statusErr, killErr, deleteErr)} :
           /\ stopId' = id
           /\ stopSaw' = tasks[id]
           /\ stopCalls' = r.calls
           /\ stopRet' = r.ret
           /\ stopPc' = r.pc
           /\ tasks' = IF r.deleted THEN [tasks EXCEPT ![id] = "notask"] ELSE tasks
    /\ UNCHANGED <<execChan, execCaller>>
    /\ UNCHANGED <<mgrVars, aclVars>>

\* the blocked ContainerStop receives the exit status and runs to its return
ContainerStopExited ==
    /\ stopPc = "waiting"
    /\ tasks[stopId] = Stopped
    /\ \E resultErr, deleteErr \in BOOLEAN :
       \E r \in {stopResume(stopCalls, resultErr, deleteErr)} :
           /\ stopCalls' = r.calls
           /\ stopRet' = r.ret
           /\ stopPc' = r.pc
           /\ tasks' = IF r.deleted THEN [tasks EXCEPT ![stopId] = "notask"] ELSE tasks
    /\ UNCHANGED <<stopId, stopSaw, execChan, execCaller>>
    /\ UNCHANGED <<mgrVars, aclVars>>

\* ContainerExec(ctx, id, cmd): returns at once, and what it returns is nil
ContainerExec(id) ==
    /\ execCaller = "idle"
    /\ execChan' = NilChan
    /\ UNCHANGED <<tasks, stopPc, stopId, stopSaw, stopCalls, stopRet, execCaller>>
    /\ UNCHANGED <<mgrVars, aclVars>>

\* the caller receives on the channel it was handed; nothing sends on or
\* closes a nil channel, so no step leads out of "blocked"
ExecReceive ==
    /\ execChan # "none"
    /\ execCaller = "idle"
    /\ execCaller' = "blocked"
    /\ UNCHANGED <<tasks, stopPc, stopId, stopSaw, stopCalls, stopRet, execChan>>
    /\ UNCHANGED <<mgrVars, aclVars>>

InitContainerd ==
    /\ EnabledHooks = {}
    /\ Hooks = <<>>
    /\ when = "none"
    /\ invoked = <<>>
    /\ ret = NilErr
    /\ fails = {}
    /\ offered = 0
    /\ skipped = FALSE
    /\ taskInfo = ExampleTask
    /\ viper = ExampleConfig
    /\ filterChains = <<>>
    /\ callback = "none"
    /\ previous = "none"
    /\ driverCalls = <<>>
    /\ aclErr = "NoError"
    /\ reads = <<>>
    /\ NoContainers

NextContainerd ==
    \/ \E id \in ContainerIds : ContainerCreate(id)
    \/ \E id \in ContainerIds : ContainerRun(id)
    \/ \E id \in ContainerIds : TaskExit(id)
    \/ \E id \in ContainerIds : ContainerStop(id)
    \/ ContainerStopExited
    \/ \E id \in ContainerIds : ContainerExec(id)
    \/ ExecReceive

SpecContainerd == InitContainerd /\ [][NextContainerd]_vars

(***************************************************************************)
(* Properties of the containerd backend (checked under SpecContainerd)     *)
(***************************************************************************)
\* the operations of the containerd calls the last ContainerStop made
StopOps == {stopCalls[i].op : i \in 1..Len(stopCalls)}

\* C14 as stated: ContainerStop on an unknown container id, or on a container
\* without task, returns success without a kill or a task delete; on a task
\* that is already stopped it issues no kill and does not wait for an exit
\* event before it deletes the task.
C14_StopToleratesMissingAndStopped ==
    /\ (stopPc # "none" /\ stopSaw \in {"absent", "notask"}) =>
           /\ stopRet = "nil"
           /\ "Kill" \notin StopOps
           /\ "Delete" \notin StopOps
    /\ (stopPc # "none" /\ stopSaw = Stopped) =>
           /\ "Kill" \notin StopOps
           /\ "Wait" \notin StopOps
           /\ stopPc = "done"

\* C15 as stated, in the form a finite run refutes: every ContainerExec call
\* hands back a channel on which a result can be delivered, so that a caller
\* receiving on it can be released.
C15_ExecHandsBackResultChannel ==
    execChan # "none" => execChan # NilChan

\* C19 as stated: ContainerStop on a task that is not stopped requests
\* graceful termination first; SIGKILL is sent only after that request, and
\* is never the first signal.
C19_GracefulBeforeForceful ==
    \A i \in 1..Len(stopCalls) :
        stopCalls[i] = KillCall(SIGKILL) =>
            \E j \in 1..(i - 1) : stopCalls[j] = KillCall(SIGTERM)

(***************************************************************************)
(* Further properties of the ACL hook (checked under SpecACL)              *)
(***************************************************************************)
\* what a driver call does to the rules of a chain: an accepted append adds
\* the rule at the end, an accepted delete removes its first occurrence, a
\* rejected call and a chain listing change nothing
RECURSIVE WithoutFirst(_, _)
WithoutFirst(rules, rule) ==
    IF rules = <<>> THEN <<>>
    ELSE IF Head(rules) = rule THEN Tail(rules)
    ELSE <<Head(rules)>> \o WithoutFirst(Tail(rules), rule)

RECURSIVE RulesAfter(_, _, _)
RulesAfter(rules, calls, i) ==
    IF i > Len(calls) THEN rules
    ELSE IF calls[i].err \/ calls[i].op = "ListChains"
         THEN RulesAfter(rules, calls, i + 1)
    ELSE IF calls[i].op = "Append"
         THEN RulesAfter(Append(rules, calls[i].rulespec), calls, i + 1)
    ELSE RulesAfter(WithoutFirst(rules, calls[i].rulespec), calls, i + 1)

\* the rules the last callback left in a chain that was empty before it
RulesLeft == RulesAfter(<<>>, driverCalls, 1)

\* the rule specifications of the task's full rule set
FullRuleSet ==
    {a.rulespec : a \in DerivableLabelActions \cup DerivableDefaultActions}

\* the rule specifications of the appends the driver accepted, in order
AcceptedAppends ==
    LET accepted == SelectSeq(driverCalls, LAMBDA c : c.op = "Append" /\ ~c.err)
    IN [i \in 1..Len(accepted) |-> accepted[i].rulespec]

\* the last post-run callback ran generateACL and returned an error
InjectionAborted ==
    /\ callback = postRun
    /\ GenerateReached
    /\ aclErr # "NoError"

\* C21: when post-run injection aborts part way (a later label fails
\* validation or an append is rejected) the hook issues no delete: the rules
\* it had appended in that invocation stay in the chain, all of them rules of
\* the task's full rule set.
C21_AbortLeavesAppendedRules ==
    InjectionAborted =>
        /\ \A i \in 1..Len(driverCalls) : driverCalls[i].op # "Delete"
        /\ RulesLeft = AcceptedAppends
        /\ \A i \in 1..Len(RulesLeft) : RulesLeft[i] \in FullRuleSet

\* a first label was injected and a later label failed validation: the
\* rules left are a non-empty strict subset of the full rule set
C21_Witness ==
    /\ InjectionAborted
    /\ aclErr \in {"InvalidIP", "PortIndexUnmatched"}
    /\ RulesLeft # <<>>
    /\ {RulesLeft[i] : i \in 1..Len(RulesLeft)} # FullRuleSet
    /\ {RulesLeft[i] : i \in 1..Len(RulesLeft)} \subseteq FullRuleSet

====
